---- MODULE Spec2Model ----
(***************************************************************************)
(* Model of prepare.py, the GlaS dataset generator: the stratified         *)
(* train/val/test split (split_train_val_test), the raw-set materializer   *)
(* (prepare_raw_images), the patch assembler (prepare_patches) and the     *)
(* __main__ pipeline that composes them.                                   *)
(*                                                                         *)
(* Four specifications share the variables:                                *)
(*   Spec       the __main__ run, one step per statement group / sample;   *)
(*   SpecSplit  split_train_val_test as a function of manifest, val_size;  *)
(*   SpecStrat  the per-class allocation of train_test_split(stratify=y)   *)
(*              as a function of the class sizes and val_size;             *)
(*   SpecBin    the mask binarization (imread(...) > 0).astype('uint8').   *)
(***************************************************************************)
EXTENDS Integers, Sequences, FiniteSets, TLC

VARIABLES
    \* ---- Spec: the __main__ run
    pc,          \* position of the run
    prior,       \* what the output root and the group directories held
                 \* before the run
    groups,      \* (train_set, val_set, testA_set, testB_set) once split
    pos,         \* index of the next name in the group being processed
    dirs,        \* output directories the run has created
    files,       \* output files the run has written: path -> content
    x,           \* prepare_patches: image patch stacks appended so far
    y,           \* prepare_patches: mask patch stacks appended so far
    shapes,      \* prepare_patches: (image shape, mask shape) of loaded samples
    saves,       \* np.save calls so far: <<file, samples loaded at that time>>
    log,         \* samples whose processing has begun: <<group, name>>
    failed,      \* the stage at which the run raised, or None
    \* ---- SpecSplit / SpecStrat / SpecBin: function inputs and results
    manifest,    \* rows of Grade.csv: name -> grade
    val_size,    \* numerator of val_size over ValDen
    outcome,     \* "none" before the call, then "ok" or "error" (it raised)
    result,      \* the four groups split_train_val_test returned
    counts,      \* class sizes of the train_ rows (non-decreasing)
    train_counts,\* members per class that go to train
    val_counts,  \* members per class that go to val
    mask,        \* raw mask pixels
    bin1,        \* binarized once
    bin2         \* binarized twice

vars == <<pc, prior, groups, pos, dirs, files, x, y, shapes, saves,
          log, failed, manifest, val_size, outcome, result, counts, train_counts, val_counts,
          mask, bin1, bin2>>

None == "none"

(***************************************************************************)
(* Bounds of the model.                                                    *)
(***************************************************************************)
MaxTrain == 4      \* train_1 .. train_MaxTrain may appear in the manifest
MaxPool == 43      \* SpecStrat: at most this many train_ rows in total
MaxClasses == 3    \* SpecStrat: at most this many grade classes
ValDen == 50       \* val_size ranges over k / ValDen, 0 < k < ValDen
MaxPixel == 2      \* raw mask pixels range over 0..MaxPixel and 255
MaxMaskLen == 3    \* SpecBin: masks of 1..MaxMaskLen pixels
MaxRunTrain == 3   \* Spec: train_1 .. train_MaxRunTrain may appear in Grade.csv

\* config.PATCH_SIZE: the side of a patch, in pixels
PATCH_SIZE == 2

(***************************************************************************)
(* Sample identifiers are strings; a name is modelled as its sequence of   *)
(* characters so that str.startswith is a real prefix test.                *)
(***************************************************************************)
DigitChars == <<"1", "2", "3", "4", "5", "6", "7", "8", "9">>

TrainPrefix == <<"t", "r", "a", "i", "n", "_">>
TestAPrefix == <<"t", "e", "s", "t", "A", "_">>
TestBPrefix == <<"t", "e", "s", "t", "B", "_">>

MkName(prefix, i) == prefix \o <<DigitChars[i]>>

TrainNames == {MkName(TrainPrefix, i) : i \in 1..MaxTrain}
TestANames == {MkName(TestAPrefix, 1)}
TestBNames == {MkName(TestBPrefix, 1)}
\* a row whose name carries none of the three prefixes
OtherNames == {<<"t", "e", "s", "t", "_", "1">>}

AllNames == TrainNames \cup TestANames \cup TestBNames \cup OtherNames

Grades == {"benign", "malignant"}

\* str.startswith
StartsWith(s, p) == Len(s) >= Len(p) /\ SubSeq(s, 1, Len(p)) = p

(***************************************************************************)
(* sklearn.model_selection.train_test_split(x, y, test_size=val_size,      *)
(* stratify=y), as called at prepare.py:61-62.  The library draws one      *)
(* StratifiedShuffleSplit: n_test = ceil(test_size * n), n_train = n -     *)
(* n_test; it raises when there is nothing to split, when a class has      *)
(* fewer than 2 members, or when n_train or n_test is below the number of  *)
(* classes; it allots n_train and then n_test over the classes by largest  *)
(* remainder, ties broken at random; within a class the members are drawn  *)
(* at random, and both index lists are shuffled.                           *)
(***************************************************************************)
RECURSIVE SumOver(_, _)
SumOver(f, D) ==
    IF D = {} THEN 0
    ELSE LET d == CHOOSE e \in D : TRUE IN f[d] + SumOver(f, D \ {d})

Total(f) == SumOver(f, DOMAIN f)

\* ceil(test_size * n) for test_size = v / ValDen
NTest(n, v) == (v * n + ValDen - 1) \div ValDen

NTrain(n, v) == n - NTest(n, v)

\* the ValueErrors of train_test_split for class sizes cc
SplitRaises(cc, v) ==
    LET n == Total(cc)
        k == Cardinality(DOMAIN cc)
    IN  \/ n = 0
        \/ NTrain(n, v) = 0
        \/ \E c \in DOMAIN cc : cc[c] < 2
        \/ NTrain(n, v) < k
        \/ NTest(n, v) < k

\* _approximate_mode(class_counts, n_draws, rng): every allotment the
\* random tie-break can produce
ApproximateMode(cc, n_draws) ==
    LET n       == Total(cc)
        floored == [c \in DOMAIN cc |-> (cc[c] * n_draws) \div n]
        rem     == [c \in DOMAIN cc |-> (cc[c] * n_draws) % n]
        need    == n_draws - Total(floored)
    IN  { [c \in DOMAIN cc |-> floored[c] + (IF c \in A THEN 1 ELSE 0)] :
            A \in { B \in SUBSET (DOMAIN cc) :
                      /\ Cardinality(B) = need
                      /\ \A i \in B : \A j \in (DOMAIN cc) \ B :
                            rem[i] >= rem[j] } }

\* the split without stratify=y: n_test members, from any classes
SplitAllotmentsUnstratified(cc, v) ==
    LET n == Total(cc)
    IN  { [train |-> [c \in DOMAIN cc |-> cc[c] - t[c]], val |-> t] :
            t \in { u \in [DOMAIN cc -> 0..n] :
                      /\ \A c \in DOMAIN cc : u[c] <= cc[c]
                      /\ Total(u) = NTest(n, v) } }

\* StratifiedShuffleSplit._iter_indices: the per-class sizes (n_i, t_i) of
\* the train and the test (validation) side, for class sizes cc that do not
\* raise
SplitAllotments(cc, v) ==
    LET n == Total(cc)
    IN  UNION { { [train |-> n_i, val |-> t_i] :
                    t_i \in ApproximateMode(
                              [c \in DOMAIN cc |-> cc[c] - n_i[c]],
                              NTest(n, v)) } :
                n_i \in ApproximateMode(cc, NTrain(n, v)) }

(***************************************************************************)
(* Values the variables of the other specifications rest at.               *)
(***************************************************************************)
\* neither the output root nor any group directory exists
NothingThere ==
    [root |-> "absent", train |-> "absent", val |-> "absent",
     testA |-> "absent", testB |-> "absent"]

NoGroups == [train |-> <<>>, val |-> <<>>, testA |-> <<>>, testB |-> <<>>]

MainIdle ==
    /\ pc = "idle" /\ prior = NothingThere /\ groups = NoGroups /\ pos = 0
    /\ dirs = {} /\ files = <<>> /\ x = <<>> /\ y = <<>>
    /\ shapes = <<>> /\ saves = <<>> /\ log = <<>> /\ failed = None

SplitIdle == manifest = <<>> /\ result = NoGroups

StratIdle == counts = <<>> /\ train_counts = <<>> /\ val_counts = <<>>

BinIdle == mask = <<>> /\ bin1 = <<>> /\ bin2 = <<>>

mainVars == <<pc, prior, groups, pos, dirs, files, x, y, shapes,
              saves, log, failed>>
splitVars == <<manifest, result>>
stratVars == <<counts, train_counts, val_counts>>
binVars == <<mask, bin1, bin2>>

(***************************************************************************)
(* SpecStrat: train_test_split on the class sizes of the train_ rows.      *)
(* counts lists the class sizes in non-decreasing order (the allotment     *)
(* does not depend on the order of the classes).                           *)
(***************************************************************************)
InitStrat ==
    /\ StratIdle /\ val_size = 0 /\ outcome = None
    /\ MainIdle /\ SplitIdle /\ BinIdle

\* one more grade class among the train_ rows
StratAddClass ==
    /\ outcome = None
    /\ Len(counts) < MaxClasses
    /\ \E c \in 1..MaxPool :
         /\ Len(counts) > 0 => c >= counts[Len(counts)]
         /\ Total(counts) + c <= MaxPool
         /\ counts' = Append(counts, c)
    /\ UNCHANGED <<train_counts, val_counts, val_size, outcome>>
    /\ UNCHANGED <<mainVars, splitVars, binVars>>

\* train_test_split(x, y, test_size=val_size, stratify=y)
StratSplit ==
    /\ outcome = None
    /\ \E v \in 1..(ValDen - 1) :
         /\ val_size' = v
         /\ IF SplitRaises(counts, v)
            THEN /\ outcome' = "error"
                 /\ UNCHANGED <<train_counts, val_counts>>
            ELSE /\ outcome' = "ok"
                 /\ \E a \in SplitAllotments(counts, v) :
                      train_counts' = a.train /\ val_counts' = a.val
    /\ UNCHANGED <<counts, mainVars, splitVars, binVars>>

NextStrat == StratAddClass \/ StratSplit

SpecStrat == InitStrat /\ [][NextStrat]_vars

\* the integer nearest to num / den (halves up)
Round(num, den) == (2 * num + den) \div (2 * den)

Abs(i) == IF i < 0 THEN -i ELSE i

\* C2 (as stated): a class of n members of the train_ rows gives
\* round(n * val_size) members to val, at most one away, and the rest to
\* train; 10 rows split 5/5 with val_size = 0.2 give val one row per grade.
C2_ValWithinOneOfRound ==
    outcome = "ok" =>
        /\ \A c \in DOMAIN counts :
             /\ Abs(val_counts[c] - Round(counts[c] * val_size, ValDen)) <= 1
             /\ train_counts[c] = counts[c] - val_counts[c]
        /\ (counts = <<5, 5>> /\ 5 * val_size = ValDen) =>
             (val_counts = <<1, 1>> /\ train_counts = <<4, 4>>)

\* C2 (amended): val holds T = ceil(N * val_size) rows of the N train_ rows;
\* a class of n members gives floor or ceiling of n * T / N of them to val,
\* which is at most two away from round(n * val_size), and the rest to
\* train; 10 rows split 5/5 with val_size = 0.2 give val one row per grade.
C2_ValStratified ==
    outcome = "ok" =>
        LET N == Total(counts)
            T == Total(val_counts)
        IN  /\ T * ValDen >= N * val_size
            /\ (T - 1) * ValDen < N * val_size
            /\ \A c \in DOMAIN counts :
                 /\ (val_counts[c] - 1) * N < counts[c] * T
                 /\ counts[c] * T < (val_counts[c] + 1) * N
                 /\ Abs(val_counts[c] - Round(counts[c] * val_size, ValDen)) <= 2
                 /\ train_counts[c] = counts[c] - val_counts[c]
            /\ (counts = <<5, 5>> /\ 5 * val_size = ValDen) =>
                 (val_counts = <<1, 1>> /\ train_counts = <<4, 4>>)

\* the end-to-end example of C2 has been split
C2_Witness ==
    /\ outcome = "ok" /\ counts = <<5, 5>> /\ 5 * val_size = ValDen
    /\ val_counts = <<1, 1>>

(***************************************************************************)
(* split_train_val_test (prepare.py:46-64).  The manifest is the data      *)
(* frame read from Grade.csv with columns 1 and 2 dropped: a sequence of   *)
(* rows (name, grade), one row per identifier.                             *)
(***************************************************************************)
Absent == "absent"

\* the order in which the rows of Grade.csv are listed
RowOrder ==
    [i \in 1..MaxTrain |-> MkName(TrainPrefix, i)]
        \o <<MkName(TestAPrefix, 1), MkName(TestBPrefix, 1),
             <<"t", "e", "s", "t", "_", "1">>>>

\* the manifests whose train_ rows are among train_1 .. train_n
ManifestsUpTo(n) ==
    { LET present == SelectSeq(RowOrder, LAMBDA nm : g[nm] # Absent)
      IN  [i \in DOMAIN present |->
              [name |-> present[i], grade |-> g[present[i]]]] :
        g \in { h \in [AllNames -> Grades \cup {Absent}] :
                  \A i \in (n + 1)..MaxTrain :
                     h[MkName(TrainPrefix, i)] = Absent } }

Manifests == ManifestsUpTo(MaxTrain)

\* val_size values tried on manifests: the default 0.1, and about 1/4, 1/2, 3/4
IdValSizes ==
    {ValDen \div 10, ValDen \div 4, ValDen \div 2, (3 * ValDen) \div 4}

RECURSIVE Perms(_)
Perms(S) ==
    IF S = {} THEN {<<>>}
    ELSE UNION { { <<e>> \o p : p \in Perms(S \ {e}) } : e \in S }

Range(q) == {q[i] : i \in DOMAIN q}

\* grade[grade['name'].str.startswith(prefix)]
WithPrefix(df, prefix) == SelectSeq(df, LAMBDA r : StartsWith(r.name, prefix))

\* df['name']
NameColumn(df) == [i \in DOMAIN df |-> df[i].name]

\* testA_set filtered on the prefix 'test' alone
TestASetLoosePrefix(df) == NameColumn(WithPrefix(df, <<"t", "e", "s", "t">>))

\* testA_set, line 53
TestASet(df) == NameColumn(WithPrefix(df, TestAPrefix))

\* testB_set, line 54
TestBSet(df) == NameColumn(WithPrefix(df, TestBPrefix))

\* every row of the manifest is split, the test rows too
TrainRowsUnfiltered(df) == df

\* the rows that are split into train and val, line 56
TrainRows(df) == WithPrefix(df, TrainPrefix)

\* pd.factorize(grade['grade'])[0]: codes by order of first appearance
Factorize(df) ==
    [i \in DOMAIN df |->
        LET first == CHOOSE j \in DOMAIN df :
                        /\ df[j].grade = df[i].grade
                        /\ \A k \in 1..(j - 1) : df[k].grade # df[i].grade
        IN  Cardinality({df[k].grade : k \in 1..(first - 1)})]

\* np.bincount of the codes y
ClassCounts(codes) ==
    [c \in Range(codes) |-> Cardinality({i \in DOMAIN codes : codes[i] = c})]

\* the groups split_train_val_test can return; empty when it raises
SplitGroups(df, v) ==
    LET grade == TrainRows(df)
        names == NameColumn(grade)
        codes == Factorize(grade)
        cc    == ClassCounts(codes)
        members(c) == {names[i] : i \in {j \in DOMAIN codes : codes[j] = c}}
        picks(a) ==
            { tv \in (SUBSET Range(names)) \X (SUBSET Range(names)) :
                /\ tv[1] \cap tv[2] = {}
                /\ \A c \in DOMAIN cc :
                     /\ Cardinality(tv[1] \cap members(c)) = a.train[c]
                     /\ Cardinality(tv[2] \cap members(c)) = a.val[c] }
    IN  IF SplitRaises(cc, v) THEN {}
        ELSE UNION { UNION { { [train |-> tr, val |-> va,
                                testA |-> TestASet(df),
                                testB |-> TestBSet(df)] :
                                 tr \in Perms(tv[1]), va \in Perms(tv[2]) } :
                             tv \in picks(a) } :
                     a \in SplitAllotments(cc, v) }

(***************************************************************************)
(* SpecSplit: one call of split_train_val_test on a well-formed manifest.  *)
(***************************************************************************)
InitSplit ==
    /\ manifest \in Manifests /\ val_size \in IdValSizes
    /\ outcome = None /\ result = NoGroups
    /\ MainIdle /\ StratIdle /\ BinIdle

SplitCall ==
    /\ outcome = None
    /\ IF SplitGroups(manifest, val_size) = {}
       THEN outcome' = "error" /\ result' = result
       ELSE outcome' = "ok" /\ result' \in SplitGroups(manifest, val_size)
    /\ UNCHANGED <<manifest, val_size, mainVars, stratVars, binVars>>

NextSplit == SplitCall

SpecSplit == InitSplit /\ [][NextSplit]_vars

\* the identifiers of the manifest whose name starts with prefix
IdsWithPrefix(prefix) ==
    { manifest[i].name : i \in { j \in DOMAIN manifest :
          /\ Len(manifest[j].name) >= Len(prefix)
          /\ \A k \in 1..Len(prefix) : manifest[j].name[k] = prefix[k] } }

NoRepeats(q) == \A i, j \in DOMAIN q : q[i] = q[j] => i = j

\* C1: the four groups returned are pairwise disjoint; train and val hold
\* exactly the train_ identifiers, none omitted and none twice; testA holds
\* exactly the testA_ identifiers and testB exactly the testB_ ones;
\* identifiers with any other prefix are in no group.
C1_GroupsPartitionManifest ==
    outcome = "ok" =>
        LET tr == Range(result.train)
            va == Range(result.val)
            ta == Range(result.testA)
            tb == Range(result.testB)
        IN  /\ tr \cap va = {} /\ tr \cap ta = {} /\ tr \cap tb = {}
            /\ va \cap ta = {} /\ va \cap tb = {} /\ ta \cap tb = {}
            /\ NoRepeats(result.train) /\ NoRepeats(result.val)
            /\ NoRepeats(result.testA) /\ NoRepeats(result.testB)
            /\ tr \cup va = IdsWithPrefix(TrainPrefix)
            /\ ta = IdsWithPrefix(TestAPrefix)
            /\ tb = IdsWithPrefix(TestBPrefix)
            /\ tr \cup va \cup ta \cup tb =
                 IdsWithPrefix(TrainPrefix) \cup IdsWithPrefix(TestAPrefix)
                     \cup IdsWithPrefix(TestBPrefix)

\* a split of a manifest that holds all three kinds of rows and a row with
\* another prefix
C1_Witness ==
    /\ outcome = "ok"
    /\ result.train # <<>> /\ result.val # <<>>
    /\ result.testA # <<>> /\ result.testB # <<>>
    /\ \E i \in DOMAIN manifest :
         manifest[i].name \notin
             IdsWithPrefix(TrainPrefix) \cup IdsWithPrefix(TestAPrefix)
                 \cup IdsWithPrefix(TestBPrefix)

\* the sizes of the grade classes among the train_ rows of the manifest
TrainClassSizes ==
    LET rows == { i \in DOMAIN manifest :
                    manifest[i].name \in IdsWithPrefix(TrainPrefix) }
    IN  { Cardinality({ j \in rows : manifest[j].grade = manifest[i].grade }) :
            i \in rows }

\* C6: the call raises, returning no groups, whenever a grade class among
\* the train_ rows has fewer than 2 members; the grades of the testA_ and
\* testB_ rows never make it raise: when it raises, the train_ rows alone
\* explain it (none, a class below 2, or fewer rows on a side than classes).
C6_SmallTrainClassRaises ==
    outcome # None =>
        LET sizes == TrainClassSizes
            N == Cardinality(IdsWithPrefix(TrainPrefix))
            T == (val_size * N + ValDen - 1) \div ValDen
        IN  /\ (\E n \in sizes : n < 2) =>
                 (outcome = "error" /\ result = NoGroups)
            /\ outcome = "error" =>
                 \/ N = 0
                 \/ \E n \in sizes : n < 2
                 \/ T < Cardinality({manifest[i].grade : i \in
                          { j \in DOMAIN manifest :
                              manifest[j].name \in IdsWithPrefix(TrainPrefix) }})
                 \/ N - T < Cardinality({manifest[i].grade : i \in
                          { j \in DOMAIN manifest :
                              manifest[j].name \in IdsWithPrefix(TrainPrefix) }})

\* the call has raised on a manifest with a train_ grade class of one member
C6_Witness ==
    /\ outcome = "error"
    /\ \E n \in TrainClassSizes : n < 2
    /\ \A n \in TrainClassSizes : n # 0

(***************************************************************************)
(* Mask binarization: (imread(path) > 0).astype('uint8'), prepare.py:88    *)
(* and prepare.py:101.                                                      *)
(***************************************************************************)
PixelValues == (0..MaxPixel) \cup {255}

\* the threshold taken one too high
BinarizeAboveOne(px) == IF px > 1 THEN 1 ELSE 0

\* one pixel: the comparison gives a boolean, astype('uint8') gives 1 or 0
Binarize(px) == IF px > 0 THEN 1 ELSE 0

BinarizeMask(m) == [i \in DOMAIN m |-> Binarize(m[i])]

RawMasks == UNION { [1..n -> PixelValues] : n \in 1..MaxMaskLen }

InitBin ==
    /\ mask \in RawMasks /\ bin1 = <<>> /\ bin2 = <<>>
    /\ val_size = 0 /\ outcome = None
    /\ MainIdle /\ SplitIdle /\ StratIdle

\* binarize the raw mask
BinFirst ==
    /\ bin1 = <<>>
    /\ bin1' = BinarizeMask(mask)
    /\ UNCHANGED <<mask, bin2, val_size, outcome, mainVars, splitVars, stratVars>>

\* binarize the binarized mask
BinAgain ==
    /\ bin1 # <<>> /\ bin2 = <<>>
    /\ bin2' = BinarizeMask(bin1)
    /\ UNCHANGED <<mask, bin1, val_size, outcome, mainVars, splitVars, stratVars>>

NextBin == BinFirst \/ BinAgain

SpecBin == InitBin /\ [][NextBin]_vars

\* C8: binarization maps every pixel > 0 to 1 and every other pixel to 0, so
\* every output pixel is 0 or 1; a mask that is already 0/1 comes back
\* identical; binarizing twice equals binarizing once.
C8_BinarizeIdempotent ==
    /\ bin1 # <<>> =>
         /\ Len(bin1) = Len(mask)
         /\ \A i \in DOMAIN mask :
              /\ mask[i] > 0 => bin1[i] = 1
              /\ ~(mask[i] > 0) => bin1[i] = 0
              /\ bin1[i] \in {0, 1}
         /\ (\A i \in DOMAIN mask : mask[i] \in {0, 1}) => bin1 = mask
    /\ bin2 # <<>> => bin2 = bin1

\* a mask with a pixel above 1 and a zero pixel has been binarized twice
C8_Witness ==
    /\ bin2 # <<>>
    /\ \E i \in DOMAIN mask : mask[i] > 1
    /\ \E i \in DOMAIN mask : mask[i] = 0

(***************************************************************************)
(* The dataset the run reads.  Whether a file exists, and the shape of an  *)
(* image, is decided when the run reads it (every source file is read by   *)
(* one sample of one group only); what a file holds is fixed per           *)
(* identifier.                                                             *)
(***************************************************************************)
NameIndex(nm) == CHOOSE i \in DOMAIN RowOrder : RowOrder[i] = nm

\* '{}.bmp'.format(name)
ImgName(name) == name \o <<".bmp">>

\* '{}_anno.bmp'.format(name)
MaskName(name) == name \o <<"_anno.bmp">>

\* the bytes of the source image of an identifier
ImageBytes(nm) == <<"bytes of image", nm>>

\* the pixels of the source annotation of an identifier, as stored
RawMaskPixels(nm) == <<0, NameIndex(nm) % (MaxPixel + 1), 255, 1>>

\* the files of the dataset root, by file name
SourceFile(fname) ==
    LET nm == CHOOSE n \in AllNames : fname \in {ImgName(n), MaskName(n)}
    IN  IF fname = ImgName(nm) THEN ImageBytes(nm) ELSE RawMaskPixels(nm)

\* height and width, in pixels, that an image or mask of the dataset can have
Shapes ==
    { <<PATCH_SIZE, 2 * PATCH_SIZE>>, <<2 * PATCH_SIZE, PATCH_SIZE>>,
      <<2 * PATCH_SIZE, 2 * PATCH_SIZE>> }

\* the shape of the source image of an identifier
ImageShape(nm) ==
    CASE NameIndex(nm) % 3 = 1 -> <<2 * PATCH_SIZE, 2 * PATCH_SIZE>>
      [] NameIndex(nm) % 3 = 2 -> <<PATCH_SIZE, 2 * PATCH_SIZE>>
      [] OTHER                 -> <<2 * PATCH_SIZE, PATCH_SIZE>>

\* the blocks of PATCH_SIZE x PATCH_SIZE pixels of an array of shape sh
Blocks(sh) ==
    (1..(sh[1] \div PATCH_SIZE)) \X (1..(sh[2] \div PATCH_SIZE))

\* imread of the image of nm: one value per block
ImageArray(nm) ==
    [src |-> nm, shape |-> ImageShape(nm),
     data |-> [b \in Blocks(ImageShape(nm)) |-> <<"rgb", nm, b>>]]

\* imread of the annotation of nm, of shape sh: one pixel value per block
MaskArray(nm, sh) ==
    [src |-> nm, shape |-> sh,
     data |-> [b \in Blocks(sh) |->
                 (NameIndex(nm) + b[1] * b[2]) % (MaxPixel + 2)]]

\* (array > 0).astype('uint8')
BinarizeArray(a) ==
    [a EXCEPT !.data = [b \in DOMAIN a.data |-> Binarize(a.data[b])]]

\* utils.divide_image_to_patches(img, patch_size): the non-overlapping
\* patch_size x patch_size patches of img in row-major order
DivideImageToPatches(img, patch_size) ==
    LET rows == img.shape[1] \div patch_size
        cols == img.shape[2] \div patch_size
    IN  [k \in 1..(rows * cols) |->
            LET r == ((k - 1) \div cols) + 1
                c == ((k - 1) % cols) + 1
            IN  [src |-> img.src, row |-> r, col |-> c,
                 data |-> img.data[<<r, c>>]]]

\* np.concatenate over a list of patch stacks
RECURSIVE Concatenate(_)
Concatenate(stacks) ==
    IF stacks = <<>> THEN <<>>
    ELSE Head(stacks) \o Concatenate(Tail(stacks))

(***************************************************************************)
(* Spec: the __main__ run (prepare.py:109-134).                            *)
(***************************************************************************)
funcVars == <<manifest, val_size, outcome, result, counts, train_counts,
              val_counts, mask, bin1, bin2>>

RawGroups == {"train", "testA", "testB"}

NextStage(g) ==
    CASE g = "train" -> "val"
      [] g = "val"   -> "testA"
      [] g = "testA" -> "testB"
      [] g = "testB" -> "done"

\* val_size values of the run: the default 0.1, and 0.5
MainValSizes == {ValDen \div 10, ValDen \div 2}

\* the exception is noted and the run goes on
RaiseSwallowed(stage) == pc' = pc /\ failed' = stage

\* an exception leaves the run: no handler anywhere in prepare.py
Raise(stage) == pc' = "error" /\ failed' = stage

\* dst_img_path, line 80
DstImgPath(g, name) == <<g, "images", ImgName(name)>>

\* the mask written under the annotation's own file name
DstMaskPathAnno(g, name) == <<g, "masks", MaskName(name)>>

\* dst_mask_path, line 82: the mask goes under the file name of the image
DstMaskPath(g, name) == <<g, "masks", ImgName(name)>>

\* f with key k set to v
Put(f, k, v) == [q \in DOMAIN f \cup {k} |-> IF q = k THEN v ELSE f[q]]

\* what can be there before the run: nothing; the output root alone; or the
\* root and one group directory, which is empty, holds stray entries only,
\* holds an images/ entry, or holds a masks/ entry and no images/ entry
PriorScenarios ==
    {NothingThere, [NothingThere EXCEPT !.root = "exists"]}
      \cup { [NothingThere EXCEPT !.root = "exists", ![g] = st] :
               g \in RawGroups, st \in {"empty", "stray", "images", "masks"} }
      \cup { [NothingThere EXCEPT !.root = "exists", !.val = st] :
               st \in {"empty", "stray"} }

InitMain ==
    /\ pc = "start" /\ prior \in PriorScenarios
    /\ groups = NoGroups /\ pos = 0 /\ dirs = {}
    /\ files = <<>> /\ x = <<>> /\ y = <<>> /\ shapes = <<>>
    /\ saves = <<>> /\ log = <<>> /\ failed = None
    /\ val_size = 0 /\ outcome = None
    /\ SplitIdle /\ StratIdle /\ BinIdle

\* the split called after the output root has been created
MainSplitAfterMkdir ==
    /\ pc = "start"
    /\ dirs' = IF prior.root = "absent" THEN dirs \cup {<<>>} ELSE dirs
    /\ \/ /\ Raise("split")
          /\ UNCHANGED groups
       \/ \E m \in ManifestsUpTo(MaxRunTrain), v \in MainValSizes :
             IF SplitGroups(m, v) = {}
             THEN Raise("split") /\ UNCHANGED groups
             ELSE /\ groups' \in SplitGroups(m, v)
                  /\ pc' = "mkroot"
                  /\ UNCHANGED failed
    /\ UNCHANGED <<prior, pos, files, x, y, shapes, saves, log>>
    /\ UNCHANGED funcVars

\* lines 113-114: split_train_val_test(args.dataset_path, args.val_size)
MainSplit ==
    /\ pc = "start"
    /\ \/ \* pd.read_csv raises: no Grade.csv, or no name column in it
          /\ Raise("split")
          /\ UNCHANGED groups
       \/ \E m \in ManifestsUpTo(MaxRunTrain), v \in MainValSizes :
             IF SplitGroups(m, v) = {}
             THEN Raise("split") /\ UNCHANGED groups
             ELSE /\ groups' \in SplitGroups(m, v)
                  /\ pc' = "mkroot"
                  /\ UNCHANGED failed
    /\ UNCHANGED <<prior, pos, dirs, files, x, y, shapes, saves, log>>
    /\ UNCHANGED funcVars

\* lines 116-117: create the output root unless it exists
MainMkRoot ==
    /\ pc = "mkroot"
    /\ dirs' = IF prior.root = "absent" THEN dirs \cup {<<>>} ELSE dirs
    /\ pc' = "train"
    /\ pos' = 0
    /\ UNCHANGED <<prior, groups, files, x, y, shapes, saves, log, failed>>
    /\ UNCHANGED funcVars

\* prepare_raw_images, lines 68-74: the directories
RawEnter(g) ==
    /\ pc = g /\ pos = 0
    /\ CASE prior[g] = "images" ->
              \* os.mkdir(dst_img_dir) raises FileExistsError
              /\ Raise(g)
              /\ UNCHANGED <<dirs, pos>>
         [] prior[g] = "masks" ->
              \* os.mkdir(dst_mask_dir) raises FileExistsError
              /\ dirs' = dirs \cup {<<g, "images">>}
              /\ Raise(g)
              /\ UNCHANGED pos
         [] OTHER ->
              /\ dirs' = dirs \cup (IF prior[g] = "absent" THEN {<<g>>} ELSE {})
                             \cup {<<g, "images">>, <<g, "masks">>}
              /\ pos' = 1
              /\ UNCHANGED <<pc, failed>>
    /\ UNCHANGED <<prior, groups, files, x, y, shapes, saves, log>>
    /\ UNCHANGED funcVars

\* prepare_raw_images, lines 76-88: one sample
RawSample(g) ==
    /\ pc = g /\ pos \in 1..Len(groups[g])
    /\ LET name          == groups[g][pos]
           img_name      == ImgName(name)
           mask_name     == MaskName(name)
           dst_img_path  == DstImgPath(g, name)
           dst_mask_path == DstMaskPath(g, name)
       IN  /\ log' = Append(log, <<g, name>>)
           /\ \E src \in {"ok", "no image", "no mask"} :
                CASE src = "no image" ->
                       \* copyfile raises
                       /\ Raise(g)
                       /\ UNCHANGED <<files, pos>>
                  [] src = "no mask" ->
                       \* the image is copied, then imread raises
                       /\ files' = Put(files, dst_img_path, SourceFile(img_name))
                       /\ Raise(g)
                       /\ UNCHANGED pos
                  [] OTHER ->
                       /\ files' = Put(Put(files, dst_img_path,
                                           SourceFile(img_name)),
                                       dst_mask_path,
                                       BinarizeMask(SourceFile(mask_name)))
                       /\ pos' = pos + 1
                       /\ UNCHANGED <<pc, failed>>
    /\ UNCHANGED <<prior, groups, dirs, x, y, shapes, saves>>
    /\ UNCHANGED funcVars

\* prepare_raw_images returns; lines 125, 131, 134
RawReturn(g) ==
    /\ pc = g /\ pos = Len(groups[g]) + 1
    /\ pc' = NextStage(g)
    /\ pos' = 0
    /\ UNCHANGED <<prior, groups, dirs, files, x, y, shapes, saves, log,
                   failed>>
    /\ UNCHANGED funcVars

\* prepare_patches, lines 92-95
PatchEnter ==
    /\ pc = "val" /\ pos = 0
    /\ dirs' = IF prior.val = "absent" THEN dirs \cup {<<"val">>} ELSE dirs
    /\ x' = <<>> /\ y' = <<>>
    /\ pos' = 1
    /\ UNCHANGED <<pc, prior, groups, files, shapes, saves, log, failed>>
    /\ UNCHANGED funcVars

\* prepare_patches, lines 97-103: one sample
PatchSample ==
    /\ pc = "val" /\ pos \in 1..Len(groups.val)
    /\ LET name == groups.val[pos]
       IN  /\ log' = Append(log, <<"val", name>>)
           /\ \/ \* imread raises on the image or on the mask
                 /\ Raise("val")
                 /\ UNCHANGED <<x, y, shapes, pos>>
              \/ \E msh \in Shapes :
                   LET img == ImageArray(name)
                       msk == BinarizeArray(MaskArray(name, msh))
                   IN  /\ x' = Append(x, DivideImageToPatches(img, PATCH_SIZE))
                       /\ y' = Append(y, DivideImageToPatches(msk, PATCH_SIZE))
                       /\ shapes' = Append(shapes, [name |-> name,
                                                    image |-> img.shape,
                                                    mask |-> msh])
                       /\ pos' = pos + 1
                       /\ UNCHANGED <<pc, failed>>
    /\ UNCHANGED <<prior, groups, dirs, files, saves>>
    /\ UNCHANGED funcVars

\* the two np.save calls indented into the loop: the corpora are written
\* after every sample
PatchSaveInLoop ==
    /\ pc = "val" /\ pos \in 2..(Len(groups.val) + 1)
    /\ saves' = saves \o
          << [file |-> <<"val", "images.npy">>, data |-> Concatenate(x),
              loaded |-> Len(x)],
             [file |-> <<"val", "masks.npy">>, data |-> Concatenate(y),
              loaded |-> Len(y)] >>
    /\ IF pos = Len(groups.val) + 1
       THEN pc' = "testA" /\ pos' = 0 /\ x' = <<>> /\ y' = <<>>
       ELSE UNCHANGED <<pc, pos, x, y>>
    /\ Len(saves) < 2 * Len(groups.val)
    /\ UNCHANGED <<prior, groups, dirs, files, shapes, log, failed>>
    /\ UNCHANGED funcVars

\* prepare_patches, lines 105-106, and its return (x and y are its locals)
PatchSave ==
    /\ pc = "val" /\ pos = Len(groups.val) + 1
    /\ IF x = <<>>
       THEN \* np.concatenate of an empty list raises ValueError
            /\ Raise("val")
            /\ UNCHANGED <<saves, x, y, pos>>
       ELSE /\ saves' = saves \o
                  << [file |-> <<"val", "images.npy">>, data |-> Concatenate(x),
                      loaded |-> Len(x)],
                     [file |-> <<"val", "masks.npy">>, data |-> Concatenate(y),
                      loaded |-> Len(y)] >>
            /\ pc' = "testA"
            /\ pos' = 0
            /\ x' = <<>> /\ y' = <<>>
            /\ UNCHANGED failed
    /\ UNCHANGED <<prior, groups, dirs, files, shapes, log>>
    /\ UNCHANGED funcVars

Next ==
    \/ MainSplit
    \/ MainMkRoot
    \/ \E g \in RawGroups : RawEnter(g)
    \/ \E g \in RawGroups : RawSample(g)
    \/ \E g \in RawGroups : RawReturn(g)
    \/ PatchEnter
    \/ PatchSample
    \/ PatchSave

Spec == InitMain /\ [][Next]_vars

(***************************************************************************)
(* Claims about the run.                                                   *)
(***************************************************************************)
Rank(stage) ==
    CASE stage \in {"start", "split"} -> 0
      [] stage = "mkroot" -> 1
      [] stage = "train"  -> 2
      [] stage = "val"    -> 3
      [] stage = "testA"  -> 4
      [] stage = "testB"  -> 5
      [] stage = "done"   -> 6

\* the stage the run is in, or was in when it raised
Stage == IF pc = "error" THEN failed ELSE pc

\* the call for group g has returned
Completed(g) == Rank(Stage) > Rank(g)

ImagesCorpus == saves[1].data

MasksCorpus == saves[2].data

\* position of identifier nm in the list q
PosIn(q, nm) == CHOOSE i \in DOMAIN q : q[i] = nm

\* C3: once prepare_patches has completed, the two corpora hold the same
\* number of patches, the patches are ordered by sample position in the list
\* and then by row-major grid position, and mask patch i comes from the same
\* sample and grid cell as image patch i.
C3_CorporaAligned ==
    Completed("val") =>
        /\ Len(ImagesCorpus) = Len(MasksCorpus)
        /\ \A i \in DOMAIN ImagesCorpus : \A j \in DOMAIN ImagesCorpus :
             i < j =>
               LET a == ImagesCorpus[i]
                   b == ImagesCorpus[j]
                   pa == PosIn(groups.val, a.src)
                   pb == PosIn(groups.val, b.src)
               IN  \/ pa < pb
                   \/ pa = pb /\ a.row < b.row
                   \/ pa = pb /\ a.row = b.row /\ a.col < b.col
        /\ \A i \in DOMAIN ImagesCorpus \cap DOMAIN MasksCorpus :
             /\ MasksCorpus[i].src = ImagesCorpus[i].src
             /\ MasksCorpus[i].row = ImagesCorpus[i].row
             /\ MasksCorpus[i].col = ImagesCorpus[i].col

\* C4: prepare_patches fails whenever the image and the mask of an
\* identifier differ in height or width, and writes no corpus that holds
\* patches of such a pair.
C4_ShapeMismatchRaises ==
    (\E i \in DOMAIN shapes : shapes[i].image # shapes[i].mask) =>
        (pc = "error" /\ failed = "val" /\ saves = <<>>)

\* C5: when the split fails, the run is in error and has created no
\* directory and written no file, then and afterwards.
C5_SplitFailureLeavesNoOutput ==
    failed = "split" =>
        (pc = "error" /\ dirs = {} /\ files = <<>> /\ saves = <<>>)

\* the split has failed where not even the output root existed
C5_Witness == pc = "error" /\ failed = "split" /\ prior.root = "absent"

\* the entries of the output directory of group g
DirEntries(g) ==
    { d[2] : d \in { e \in dirs : Len(e) = 2 /\ e[1] = g } }
        \cup (IF prior[g] = "stray" THEN {"stray entry"} ELSE {})

\* the files of group g are those of its identifiers: the image copied, the
\* mask binarized and stored under the file name of the image
GroupFilesRight(g) ==
    /\ \A nm \in Range(groups[g]) :
         /\ <<g, "images", nm \o <<".bmp">>>> \in DOMAIN files
         /\ files[<<g, "images", nm \o <<".bmp">>>>] = ImageBytes(nm)
         /\ <<g, "masks", nm \o <<".bmp">>>> \in DOMAIN files
         /\ files[<<g, "masks", nm \o <<".bmp">>>>] =
              [i \in DOMAIN RawMaskPixels(nm) |->
                  IF RawMaskPixels(nm)[i] > 0 THEN 1 ELSE 0]
    /\ { q \in DOMAIN files : q[1] = g } =
         { <<g, sub, nm \o <<".bmp">>>> :
             sub \in {"images", "masks"}, nm \in Range(groups[g]) }

\* C7 (as stated): once prepare_raw_images has completed for a group, the
\* group's directory holds exactly images/ and masks/, images/<id>.bmp is
\* the copy of the source image and masks/<id>.bmp the binarized source
\* annotation for every identifier of the group, and no other file is
\* written.
C7_RawGroupExactly ==
    \A g \in RawGroups :
        Completed(g) =>
            /\ DirEntries(g) = {"images", "masks"}
            /\ GroupFilesRight(g)

\* C7 (amended): once prepare_raw_images has completed for a group, the
\* group's directory holds an images/ and a masks/ directory, both created
\* by the run, and besides them only what it held before the run; the files
\* are as stated.
C7_RawGroupMaterialized ==
    \A g \in RawGroups :
        Completed(g) =>
            /\ <<g, "images">> \in dirs /\ <<g, "masks">> \in dirs
            /\ DirEntries(g) \ {"images", "masks"} =
                 (IF prior[g] = "stray" THEN {"stray entry"} ELSE {})
            /\ prior[g] \in {"absent", "empty"} =>
                 DirEntries(g) = {"images", "masks"}
            /\ GroupFilesRight(g)

\* the run is done with two train identifiers and a testA identifier
C7_Witness ==
    /\ pc = "done"
    /\ Len(groups.train) >= 2 /\ groups.testA # <<>>

\* the samples of the four groups in the order the run takes them
Plan ==
    [i \in DOMAIN groups.train |-> <<"train", groups.train[i]>>]
      \o [i \in DOMAIN groups.val |-> <<"val", groups.val[i]>>]
      \o [i \in DOMAIN groups.testA |-> <<"testA", groups.testA[i]>>]
      \o [i \in DOMAIN groups.testB |-> <<"testB", groups.testB[i]>>]

\* sample <<g, nm>> has been processed to completion
SampleComplete(s) ==
    IF s[1] = "val"
    THEN \E i \in DOMAIN shapes : shapes[i].name = s[2]
    ELSE /\ <<s[1], "images", ImgName(s[2])>> \in DOMAIN files
         /\ <<s[1], "masks", ImgName(s[2])>> \in DOMAIN files

C9_State ==
    /\ Len(log) <= Len(Plan)
    /\ \A i \in DOMAIN log : log[i] = Plan[i]
    /\ \A i \in DOMAIN log :
         (i < Len(log) \/ failed = None) => SampleComplete(log[i])
    /\ failed # None => pc = "error"
    /\ (pc = "error" /\ failed # "split" /\ log # <<>>) =>
         Rank(failed) >= Rank(log[Len(log)][1])
    /\ pc = "done" => log = Plan

C9_Step ==
    /\ pc = "error" => UNCHANGED vars
    /\ dirs \subseteq dirs'
    /\ \A q \in DOMAIN files : q \in DOMAIN files' /\ files'[q] = files[q]
    /\ Len(saves) <= Len(saves')
    /\ \A i \in DOMAIN saves : saves'[i] = saves[i]

\* C9: the samples are taken in the order train, val, testA, testB, each to
\* completion before the next; when a sample fails the run is in error,
\* nothing further is processed or retried, and what was written stays.
C9_StopsAtFirstFailure == [](C9_State) /\ [][C9_Step]_vars

\* a testA sample has failed after train and val were materialized
C9_Witness ==
    /\ pc = "error" /\ failed = "testA"
    /\ log # <<>> /\ log[Len(log)][1] = "testA"
    /\ files # <<>> /\ saves # <<>>

\* the patches the validation list yields, given the shapes loaded
PatchCount(sh) == (sh[1] \div PATCH_SIZE) * (sh[2] \div PATCH_SIZE)

RECURSIVE SumPatches(_, _)
SumPatches(q, field) ==
    IF q = <<>> THEN 0
    ELSE PatchCount(Head(q)[field]) + SumPatches(Tail(q), field)

\* C10: each corpus file is written exactly once, after every identifier of
\* the validation list has been loaded and divided, never while the list is
\* being processed; when a validation sample fails to load neither file is
\* written, although the directory may have been created.
C10_CorporaWrittenOnceAtEnd ==
    /\ Len(saves) \in {0, 2}
    /\ pc \in {"start", "mkroot", "train", "val"} => saves = <<>>
    /\ failed \in {"split", "train", "val"} => saves = <<>>
    /\ Completed("val") =>
         /\ saves[1].file = <<"val", "images.npy">>
         /\ saves[2].file = <<"val", "masks.npy">>
    /\ \A i \in DOMAIN saves :
         /\ saves[i].loaded = Len(groups.val)
         /\ Len(shapes) = Len(groups.val)
         /\ Len(saves[i].data) =
              SumPatches(shapes, IF i = 1 THEN "image" ELSE "mask")

\* both corpora have been written for a validation list of two identifiers
C10_Witness ==
    /\ Len(saves) = 2 /\ Len(groups.val) >= 2
    /\ <<"val">> \in dirs

====
